---- MODULE Spec2Model ----
(***************************************************************************)
(* Model of mcpadapt's connection bridge (src/src/mcpadapt/core.py).       *)
(*                                                                         *)
(* MCPAdapt.__init__ starts a daemon thread that runs an asyncio loop; the *)
(* loop runs the setup() task, which enters mcptools() (transport,         *)
(* ClientSession, initialize(), list_tools()), stores the session and the  *)
(* listing, sets the `ready` event and then parks until it is cancelled.   *)
(* Calling threads talk to the loop through call_soon_threadsafe /         *)
(* run_coroutine_threadsafe only.                                          *)
(***************************************************************************)
EXTENDS Naturals, Sequences, FiniteSets

\* ---------------------------------------------------------------- bounds
MaxCalls == 2       \* forwarded tool calls per behaviour
MaxCloses == 2      \* close() invocations per behaviour
MaxElapsed == 2     \* clock ticks observed while the constructor waits
MaxTools == 2       \* tools the server advertises
MaxSpecs == 2       \* server specs in a collection handed to MCPAdapt
MaxLists == 2       \* tool lists handed out per behaviour
MaxNameLen == 3     \* characters of an MCP tool name
MaxContent == 2     \* content items of one call result
MaxDuration == 11   \* seconds a coroutine given to async_to_sync may run

\* connect_timeout the test suite passes to MCPAdapt (seconds)
ConnectTimeout == 1

\* thread.join(timeout=10) in async_to_sync (seconds)
JoinTimeout == 10

\* ------------------------------------------------------------- constants
Threads == {"main", "worker"}

None == "None"
\* self.mcp_tools = None; tool names are 1..MaxTools, so <<0>> is no listing
NoneTools == <<0>>

\* await points of setup() at which the task is suspended in the loop
Suspended == {"connect", "initialize", "list_tools", "parked"}
\* the task has finished (result, exception or cancellation)
TaskDone == {"cancelled", "failed"}

FaultPhases == {"connect", "initialize", "list_tools"}

VARIABLES
    pc,          \* position of each calling thread
    session,     \* self.session
    mcp_tools,   \* self.mcp_tools
    task,        \* self.task
    ready,       \* self.ready (threading.Event)
    taskPc,      \* position of the setup() coroutine
    bgPc,        \* position of the background thread (_run_loop)
    loopQueue,   \* callbacks handed to self.loop, not yet run
    loopClosed,  \* self.loop.is_closed()
    sessionOpen, \* the ClientSession of setup() is entered and not exited
    procAlive,   \* the server subprocess of stdio_client is running
    serverTools, \* what the server answers to list_tools()
    listed,      \* `tools`, the local of mcptools() that list_tools() filled
    fault,       \* what the server does during setup
    elapsed,     \* seconds the constructor has been waiting for `ready`
    calls,       \* forwarded tool calls
    toolLists,   \* what tools() has returned so far
    closeCount,  \* close() invocations that have returned
    lastError,   \* exception raised to each calling thread, if any
    loopAccess,  \* how each thread has touched self.loop
    mode,        \* how the caller acquires the bridge: `with` or `async with`
    serverparams,\* self.serverparams, as the caller passed it
    ctxmanager,  \* self._ctxmanager, the mcptools() entered by __aenter__
    bodyRaised,  \* the caller's block has raised an exception
    listCount,   \* tools() / atools() invocations that have returned a list
    exitError,   \* what leaving the scope (__exit__ / __aexit__) raised
    adaptPc,     \* position of the adapter operation under study
    adaptIn,     \* its input
    adaptOut,    \* what it returned or raised
    helper,      \* async_to_sync: the helper thread and what it has stored
    joinClock    \* async_to_sync: seconds spent in thread.join

vars == <<pc, session, mcp_tools, task, ready, taskPc, bgPc, loopQueue,
          loopClosed, sessionOpen, procAlive, serverTools, listed, fault,
          elapsed, calls, toolLists, closeCount, lastError, loopAccess,
          mode, serverparams, ctxmanager, bodyRaised, listCount, exitError,
          adaptPc, adaptIn, adaptOut, helper, joinClock>>

\* the state of the adapter strategies and of async_to_sync (the bridge
\* does not touch it)
adaptVars == <<adaptPc, adaptIn, adaptOut, helper, joinClock>>

\* the state of the connection bridge (the adapters do not touch it)
coreVars == <<pc, session, mcp_tools, task, ready, taskPc, bgPc, loopQueue,
              loopClosed, sessionOpen, procAlive, serverTools, listed, fault,
              elapsed, calls, toolLists, closeCount, lastError, loopAccess,
              mode, serverparams, ctxmanager, bodyRaised, listCount,
              exitError>>

\* what only the asynchronous scope, the caller's block and re-listing change
scopeVars == <<mode, serverparams, ctxmanager, bodyRaised, listCount,
               exitError>>

bridgeVars == <<session, mcp_tools, task, ready, taskPc, bgPc, loopClosed,
                sessionOpen, procAlive>>

Listing(n) == [i \in 1..n |-> i]

NoCall == [state |-> "none", caller |-> None, runner |-> None,
           tool |-> 0, afterClose |-> FALSE, mode |-> None,
           session |-> None, listedBy |-> None, gen |-> 0]

\* self._ctxmanager before __aenter__: no second session, no second process;
\* `tools` is what the process it spawns answers to list_tools(), `listed`
\* is self.tools once line 214 has overwritten it.
NoCtx == [state |-> "none", open |-> FALSE, proc |-> FALSE,
          tools |-> NoneTools, listed |-> NoneTools]

\* async_to_sync before thread.start(): `result` and `error` are None
NoHelper == [state |-> "unstarted", result |-> None, error |-> None]

\* ------------------------------------------------------------------ Init
\* Before MCPAdapt(...) is evaluated: no thread, no session, no process.
Init ==
    /\ pc = [t \in Threads |-> IF t = "main" THEN "ctor" ELSE "idle"]
    /\ session = None
    /\ mcp_tools = NoneTools
    /\ task = None
    /\ ready = FALSE
    /\ taskPc = "none"
    /\ bgPc = "unstarted"
    /\ loopQueue = <<>>
    /\ loopClosed = FALSE
    /\ sessionOpen = FALSE
    /\ procAlive = FALSE
    /\ mode \in {"sync", "async"}
    /\ serverparams \in {p \in [isList : BOOLEAN, n : 1..MaxSpecs,
                                 tools : {Listing(n) : n \in 0..MaxTools}] :
                            ~p.isList => p.n = 1}
    /\ serverTools = serverparams.tools
    /\ listed = NoneTools
    /\ fault \in {[kind |-> "none", phase |-> "connect"]}
                 \cup [kind : {"fail", "hang"}, phase : FaultPhases]
    /\ elapsed = 0
    /\ calls = [c \in 1..MaxCalls |-> NoCall]
    /\ toolLists = {}
    /\ closeCount = 0
    /\ lastError = [t \in Threads |-> None]
    /\ loopAccess = {}
    /\ ctxmanager = NoCtx
    /\ bodyRaised = FALSE
    /\ listCount = 0
    /\ exitError = None
    /\ adaptPc = "off"
    /\ adaptIn = None
    /\ adaptOut = None
    /\ helper = NoHelper
    /\ joinClock = 0

\* ------------------------------------------------- MCPAdapt.__init__
\* lines 126-140: the attributes, the loop, the event, thread.start()
CtorStart ==
    /\ pc["main"] = "ctor"
    /\ session' = None
    /\ mcp_tools' = NoneTools
    /\ task' = None
    /\ ready' = FALSE
    /\ bgPc' = "started"
    /\ pc' = [pc EXCEPT !["main"] = "wait"]
    /\ UNCHANGED <<taskPc, loopQueue, loopClosed, sessionOpen, procAlive,
                   serverTools, listed, fault, elapsed, calls, toolLists, closeCount,
                   lastError, loopAccess>>
    /\ UNCHANGED scopeVars

    /\ UNCHANGED adaptVars
\* mutant: the constructor returns without waiting for the event
CtorWaitNoBlock ==
    /\ pc["main"] = "wait"
    /\ pc' = [pc EXCEPT !["main"] = "idle"]
    /\ UNCHANGED <<session, mcp_tools, task, ready, taskPc, bgPc, loopQueue,
                   loopClosed, sessionOpen, procAlive, serverTools, listed,
                   fault, elapsed, calls, toolLists, closeCount, lastError,
                   loopAccess>>
    /\ UNCHANGED scopeVars

    /\ UNCHANGED adaptVars
\* line 141: self.ready.wait(), with no timeout
CtorWait ==
    /\ pc["main"] = "wait"
    /\ ready
    /\ pc' = [pc EXCEPT !["main"] = "idle"]
    /\ UNCHANGED <<session, mcp_tools, task, ready, taskPc, bgPc, loopQueue,
                   loopClosed, sessionOpen, procAlive, serverTools, listed, fault,
                   elapsed, calls, toolLists, closeCount, lastError,
                   loopAccess>>
    /\ UNCHANGED scopeVars

    /\ UNCHANGED adaptVars
\* wall-clock time passing while the constructor is blocked in ready.wait()
Tick ==
    /\ pc["main"] = "wait"
    /\ ~ready
    /\ elapsed < MaxElapsed
    /\ elapsed' = elapsed + 1
    /\ UNCHANGED <<pc, session, mcp_tools, task, ready, taskPc, bgPc,
                   loopQueue, loopClosed, sessionOpen, procAlive, serverTools,
                   listed, fault, calls, toolLists, closeCount, lastError, loopAccess>>
    /\ UNCHANGED scopeVars

    /\ UNCHANGED adaptVars
\* -------------------------------------------------- MCPAdapt._run_loop
\* lines 145-155: set_event_loop, create_task(setup()), run_until_complete
RunLoopStart ==
    /\ bgPc = "started"
    /\ bgPc' = "running"
    /\ task' = "setup"
    /\ taskPc' = "connect"
    /\ loopAccess' = loopAccess \cup {<<"bg", "direct">>}
    /\ UNCHANGED <<pc, session, mcp_tools, ready, loopQueue, loopClosed,
                   sessionOpen, procAlive, serverTools, listed, fault,
                   elapsed, calls, toolLists, closeCount, lastError>>
    /\ UNCHANGED scopeVars

    /\ UNCHANGED adaptVars
\* the server lets the step of setup() at `phase` go through
ServerAnswers(phase) == ~(fault.kind # "none" /\ fault.phase = phase)

\* mcptools line 89 hands self.serverparams to stdio_client as it is: a
\* collection of specs is no StdioServerParameters and the transport raises
BadParams == serverparams.isList

\* mcptools lines 89-90: stdio_client spawns the server, ClientSession enters
SetupConnect ==
    /\ bgPc = "running"
    /\ taskPc = "connect"
    /\ ~BadParams
    /\ ServerAnswers("connect")
    /\ procAlive' = TRUE
    /\ sessionOpen' = TRUE
    /\ taskPc' = "initialize"
    /\ UNCHANGED <<pc, session, mcp_tools, task, ready, bgPc, loopQueue,
                   loopClosed, serverTools, listed, fault, elapsed, calls,
                   toolLists, closeCount, lastError, loopAccess>>
    /\ UNCHANGED scopeVars

    /\ UNCHANGED adaptVars
\* mcptools line 92: await session.initialize()
SetupInitialize ==
    /\ bgPc = "running"
    /\ taskPc = "initialize"
    /\ ServerAnswers("initialize")
    /\ taskPc' = "list_tools"
    /\ UNCHANGED <<pc, session, mcp_tools, task, ready, bgPc, loopQueue,
                   loopClosed, sessionOpen, procAlive, serverTools, listed,
                   fault, elapsed, calls, toolLists, closeCount, lastError,
                   loopAccess>>
    /\ UNCHANGED scopeVars

    /\ UNCHANGED adaptVars
\* mcptools lines 93-94: tools = await session.list_tools(); yield
SetupListTools ==
    /\ bgPc = "running"
    /\ taskPc = "list_tools"
    /\ ServerAnswers("list_tools")
    /\ listed' = serverTools
    /\ taskPc' = "store"
    /\ UNCHANGED <<pc, session, mcp_tools, task, ready, bgPc, loopQueue,
                   loopClosed, sessionOpen, procAlive, serverTools, fault,
                   elapsed, calls, toolLists, closeCount, lastError,
                   loopAccess>>
    /\ UNCHANGED scopeVars

    /\ UNCHANGED adaptVars
\* line 149: self.session, self.mcp_tools = session, tools
SetupStore ==
    /\ bgPc = "running"
    /\ taskPc = "store"
    /\ session' = "bg"
    /\ mcp_tools' = listed
    /\ taskPc' = "signal"
    /\ UNCHANGED <<pc, task, ready, bgPc, loopQueue, loopClosed, sessionOpen,
                   procAlive, serverTools, listed, fault, elapsed, calls,
                   toolLists, closeCount, lastError, loopAccess>>
    /\ UNCHANGED scopeVars

    /\ UNCHANGED adaptVars
\* lines 150-151: self.ready.set(); await asyncio.Event().wait()
SetupSignal ==
    /\ bgPc = "running"
    /\ taskPc = "signal"
    /\ ready' = TRUE
    /\ taskPc' = "parked"
    /\ UNCHANGED <<pc, session, mcp_tools, task, bgPc, loopQueue, loopClosed,
                   sessionOpen, procAlive, serverTools, listed, fault,
                   elapsed, calls, toolLists, closeCount, lastError,
                   loopAccess>>
    /\ UNCHANGED scopeVars

    /\ UNCHANGED adaptVars
\* the transport, initialize() or list_tools() raises: the exception leaves
\* the `async with` blocks of mcptools (lines 89-90), which exit what they
\* had entered, and ends the task.
SetupFail ==
    /\ bgPc = "running"
    /\ taskPc \in FaultPhases
    /\ \/ fault.kind = "fail" /\ fault.phase = taskPc
       \/ BadParams /\ taskPc = "connect"
    /\ taskPc' = "failed"
    /\ sessionOpen' = FALSE
    /\ procAlive' = FALSE
    /\ UNCHANGED <<pc, session, mcp_tools, task, ready, bgPc, loopQueue,
                   loopClosed, serverTools, listed, fault, elapsed, calls,
                   toolLists, closeCount, lastError, loopAccess>>
    /\ UNCHANGED scopeVars

    /\ UNCHANGED adaptVars
\* calls whose coroutine is running on the loop
RunningCalls == {c \in 1..MaxCalls : calls[c].state = "running"}

\* Task.cancel() run by the loop: a task suspended at an await gets
\* CancelledError there; a finished task is left as it is.
TaskCancel == IF taskPc \in Suspended THEN "teardown" ELSE taskPc

\* The loop, inside run_until_complete (line 155), runs the next callback
\* handed to it; it does so only between steps of the task.
LoopRunCallback ==
    /\ bgPc = "running"
    /\ taskPc \in Suspended \cup {"teardown"}
    /\ loopQueue # <<>>
    /\ LET cb == Head(loopQueue) IN
        /\ loopQueue' = Tail(loopQueue)
        /\ CASE cb.kind = "cancel" ->
                  /\ taskPc' = TaskCancel
                  /\ UNCHANGED <<calls, bgPc>>
             [] cb.kind = "stop" ->
                  \* loop.stop() before the task is done: run_until_complete
                  \* raises RuntimeError in the thread
                  /\ bgPc' = "dead"
                  /\ UNCHANGED <<calls, taskPc>>
             [] cb.kind = "call" ->
                  /\ calls' = [calls EXCEPT ![cb.id].state = "running",
                                            ![cb.id].runner = "bg"]
                  /\ UNCHANGED <<taskPc, bgPc>>
    /\ UNCHANGED <<pc, session, mcp_tools, task, ready, loopClosed,
                   sessionOpen, procAlive, serverTools, listed, fault,
                   elapsed, toolLists, closeCount, lastError, loopAccess>>
    /\ UNCHANGED scopeVars

    /\ UNCHANGED adaptVars
\* CancelledError unwinds setup(): ClientSession and stdio_client exit
\* (mcptools lines 89-90). A call in flight on the session either gets the
\* closed connection as an error before the loop stops, or is left pending.
\* When an __aexit__ of the unwinding raises (teardownFails), that exception
\* replaces the CancelledError and ends the task; the subprocess may then
\* survive.
TaskTeardown ==
    /\ bgPc = "running"
    /\ taskPc = "teardown"
    /\ \E teardownFails \in BOOLEAN :
        /\ taskPc' = IF teardownFails THEN "failed" ELSE "cancelled"
        /\ procAlive' \in IF teardownFails THEN BOOLEAN ELSE {FALSE}
    /\ sessionOpen' = FALSE
    /\ \E failed \in SUBSET RunningCalls :
        /\ calls' = [c \in 1..MaxCalls |->
                        IF c \in failed
                        THEN [calls[c] EXCEPT !.state = "raised"]
                        ELSE calls[c]]
        /\ pc' = [t \in Threads |->
                        IF \E c \in failed : calls[c].caller = t
                        THEN "idle" ELSE pc[t]]
        /\ lastError' = [t \in Threads |->
                        IF \E c \in failed : calls[c].caller = t
                        THEN "McpError" ELSE lastError[t]]
    /\ UNCHANGED <<session, mcp_tools, task, ready, bgPc, loopQueue,
                   loopClosed, serverTools, listed, fault, elapsed,
                   toolLists, closeCount, loopAccess>>
    /\ UNCHANGED scopeVars

    /\ UNCHANGED adaptVars
\* lines 154-157: run_until_complete returns or raises once the task is
\* done; CancelledError is swallowed, any other exception ends the thread
\* as well. Nothing runs the loop afterwards.
RunLoopExit ==
    /\ bgPc = "running"
    /\ taskPc \in TaskDone
    /\ bgPc' = "dead"
    /\ UNCHANGED <<pc, session, mcp_tools, task, ready, taskPc, loopQueue,
                   loopClosed, sessionOpen, procAlive, serverTools, listed,
                   fault, elapsed, calls, toolLists, closeCount, lastError,
                   loopAccess>>
    /\ UNCHANGED scopeVars

    /\ UNCHANGED adaptVars
\* ------------------------------------------------------ MCPAdapt.tools
\* the bridge object exists for its user once __init__ has returned
Constructed == pc["main"] \notin {"ctor", "wait"}

\* the caller's block has raised and its scope has not been left yet: the
\* thread of the block does nothing but leave the scope
InScope ==
    IF mode = "sync"
    THEN toolLists # {} /\ closeCount = 0 /\ pc["main"] = "idle"
    ELSE ctxmanager.state = "entered" /\ pc["main"] = "idle"
Unwinding(t) == t = "main" /\ bodyRaised /\ InScope

\* mutant: a refresh rebuilds the bridge's tools and drops the lists it
\* handed out before
ToolsRebuild(t) ==
    /\ Constructed
    /\ pc[t] = "idle"
    /\ ~Unwinding(t)
    /\ mode = "sync"
    /\ listCount < MaxLists
    /\ IF session = None
       THEN /\ lastError' = [lastError EXCEPT ![t] = "RuntimeError"]
            /\ UNCHANGED <<toolLists, listCount>>
       ELSE /\ toolLists' =
                    {[names |-> mcp_tools, session |-> session,
                      open |-> sessionOpen, closed |-> closeCount > 0,
                      via |-> "tools", gen |-> listCount + 1,
                      server |-> serverTools, listedBy |-> "bg"]}
            /\ listCount' = listCount + 1
            /\ UNCHANGED lastError
    /\ UNCHANGED <<pc, session, mcp_tools, task, ready, taskPc, bgPc,
                   loopQueue, loopClosed, sessionOpen, procAlive, serverTools,
                   listed, fault, elapsed, calls, closeCount, loopAccess>>
    /\ UNCHANGED <<mode, serverparams, ctxmanager, bodyRaised, exitError>>

    /\ UNCHANGED adaptVars
\* mutant: the listing is consumed by the first tools() call
ToolsExhausted(t) ==
    /\ Constructed
    /\ pc[t] = "idle"
    /\ ~Unwinding(t)
    /\ mode = "sync"
    /\ listCount < MaxLists
    /\ IF session = None
       THEN /\ lastError' = [lastError EXCEPT ![t] = "RuntimeError"]
            /\ UNCHANGED <<toolLists, listCount>>
       ELSE /\ toolLists' = toolLists \cup
                    {[names |-> IF listCount = 0 THEN mcp_tools ELSE <<>>, session |-> session,
                      open |-> sessionOpen, closed |-> closeCount > 0,
                      via |-> "tools", gen |-> listCount + 1,
                      server |-> serverTools, listedBy |-> "bg"]}
            /\ listCount' = listCount + 1
            /\ UNCHANGED lastError
    /\ UNCHANGED <<pc, session, mcp_tools, task, ready, taskPc, bgPc,
                   loopQueue, loopClosed, sessionOpen, procAlive, serverTools,
                   listed, fault, elapsed, calls, closeCount, loopAccess>>
    /\ UNCHANGED <<mode, serverparams, ctxmanager, bodyRaised, exitError>>

    /\ UNCHANGED adaptVars
\* lines 169-182: RuntimeError without a session, else one adapted tool per
\* entry of self.mcp_tools, each bound to self.session through
\* _sync_call_tool. (__enter__, line 192, is this call.)
Tools(t) ==
    /\ Constructed
    /\ pc[t] = "idle"
    /\ ~Unwinding(t)
    /\ mode = "sync"
    /\ listCount < MaxLists
    /\ IF session = None
       THEN /\ lastError' = [lastError EXCEPT ![t] = "RuntimeError"]
            /\ UNCHANGED <<toolLists, listCount>>
       ELSE /\ toolLists' = toolLists \cup
                    {[names |-> mcp_tools, session |-> session,
                      open |-> sessionOpen, closed |-> closeCount > 0,
                      via |-> "tools", gen |-> listCount + 1,
                      server |-> serverTools, listedBy |-> "bg"]}
            /\ listCount' = listCount + 1
            /\ UNCHANGED lastError
    /\ UNCHANGED <<pc, session, mcp_tools, task, ready, taskPc, bgPc,
                   loopQueue, loopClosed, sessionOpen, procAlive, serverTools,
                   listed, fault, elapsed, calls, closeCount, loopAccess>>
    /\ UNCHANGED <<mode, serverparams, ctxmanager, bodyRaised, exitError>>

    /\ UNCHANGED adaptVars
\* the next unused call slot
FreeCalls == {c \in 1..MaxCalls : calls[c].state = "none"}
NextCall == CHOOSE c \in FreeCalls : \A d \in FreeCalls : c <= d

\* mutant: the calling thread drives the coroutine itself
\* (self.loop.run_until_complete(self.session.call_tool(...)))
SyncCallToolDirect(t) ==
    /\ pc[t] = "idle"
    /\ ~Unwinding(t)
    /\ mode = "sync"
    /\ FreeCalls # {}
    /\ \E l \in {x \in toolLists : x.via = "tools"} :
       \E i \in 1..Len(l.names) :
        /\ calls' = [calls EXCEPT ![NextCall] =
                        [state |-> "ok", caller |-> t, runner |-> t,
                         tool |-> l.names[i], afterClose |-> closeCount > 0,
                         mode |-> "sync", session |-> session,
                         listedBy |-> "bg", gen |-> l.gen]]
        /\ loopAccess' = loopAccess \cup {<<t, "direct">>}
    /\ UNCHANGED <<pc, session, mcp_tools, task, ready, taskPc, bgPc,
                   loopQueue, loopClosed, sessionOpen, procAlive, serverTools,
                   listed, fault, elapsed, toolLists, closeCount, lastError>>
    /\ UNCHANGED scopeVars

    /\ UNCHANGED adaptVars
\* lines 172-177, _sync_call_tool: the coroutine object is created on the
\* calling thread, handed to the loop with run_coroutine_threadsafe, and the
\* caller blocks in .result() with no timeout.
SyncCallTool(t) ==
    /\ pc[t] = "idle"
    /\ ~Unwinding(t)
    /\ mode = "sync"
    /\ FreeCalls # {}
    /\ \E l \in {x \in toolLists : x.via = "tools"} :
       \E i \in 1..Len(l.names) :
        IF loopClosed
        THEN \* call_soon_threadsafe on a closed loop raises RuntimeError
             /\ lastError' = [lastError EXCEPT ![t] = "EventLoopClosed"]
             /\ UNCHANGED <<pc, calls, loopQueue, loopAccess>>
        ELSE /\ calls' = [calls EXCEPT ![NextCall] =
                            [state |-> "queued", caller |-> t,
                             runner |-> None, tool |-> l.names[i],
                             afterClose |-> closeCount > 0,
                             mode |-> "sync", session |-> session,
                             listedBy |-> "bg", gen |-> l.gen]]
             /\ loopQueue' = Append(loopQueue,
                                    [kind |-> "call", id |-> NextCall])
             /\ loopAccess' = loopAccess \cup {<<t, "threadsafe">>}
             /\ pc' = [pc EXCEPT ![t] = "call"]
             /\ UNCHANGED lastError
    /\ UNCHANGED <<session, mcp_tools, task, ready, taskPc, bgPc, loopClosed,
                   sessionOpen, procAlive, serverTools, listed, fault,
                   elapsed, toolLists, closeCount>>
    /\ UNCHANGED scopeVars

    /\ UNCHANGED adaptVars
\* mutant: an exception of one call_tool ends the setup task and its
\* session
CallCompleteEndsSession(c) ==
    /\ calls[c].state = "running"
    /\ bgPc = "running"
    /\ taskPc = "parked"
    /\ sessionOpen
    /\ \E outcome \in {"ok", "isError", "raised"} :
        /\ calls' = [calls EXCEPT ![c].state = outcome]
        /\ lastError' = [lastError EXCEPT ![calls[c].caller] =
                            IF outcome = "raised" THEN "McpError" ELSE @]
        /\ taskPc' = IF outcome = "raised" THEN "failed" ELSE taskPc
        /\ sessionOpen' = (outcome # "raised")
    /\ pc' = [pc EXCEPT ![calls[c].caller] = "idle"]
    /\ UNCHANGED <<session, mcp_tools, task, ready, bgPc, loopQueue,
                   loopClosed, procAlive, serverTools, listed,
                   fault, elapsed, toolLists, closeCount, loopAccess>>
    /\ UNCHANGED scopeVars

    /\ UNCHANGED adaptVars
\* session.call_tool finishes on the loop: a result, an error-flagged
\* result, or an exception; the future wakes the blocked caller.
CallComplete(c) ==
    /\ calls[c].state = "running"
    /\ bgPc = "running"
    /\ taskPc = "parked"
    /\ sessionOpen
    /\ \E outcome \in {"ok", "isError", "raised"} :
        /\ calls' = [calls EXCEPT ![c].state = outcome]
        /\ lastError' = [lastError EXCEPT ![calls[c].caller] =
                            IF outcome = "raised" THEN "McpError" ELSE @]
    /\ pc' = [pc EXCEPT ![calls[c].caller] = "idle"]
    /\ UNCHANGED <<session, mcp_tools, task, ready, taskPc, bgPc, loopQueue,
                   loopClosed, sessionOpen, procAlive, serverTools, listed,
                   fault, elapsed, toolLists, closeCount, loopAccess>>
    /\ UNCHANGED scopeVars

    /\ UNCHANGED adaptVars
\* ------------------------------------------------------ MCPAdapt.close
\* lines 186-187: if self.task: self.loop.call_soon_threadsafe(task.cancel)
\* (__exit__, line 195, is this call.)
CloseCancel ==
    /\ pc["main"] = "idle"
    /\ mode = "sync"
    /\ closeCount < MaxCloses
    /\ IF task = None
       THEN /\ pc' = [pc EXCEPT !["main"] = "close_join"]
            /\ UNCHANGED <<loopQueue, loopAccess, lastError>>
       ELSE IF loopClosed
       THEN /\ lastError' = [lastError EXCEPT !["main"] = "EventLoopClosed"]
            /\ UNCHANGED <<pc, loopQueue, loopAccess>>
       ELSE /\ loopQueue' = Append(loopQueue, [kind |-> "cancel", id |-> 0])
            /\ loopAccess' = loopAccess \cup {<<"main", "threadsafe">>}
            /\ pc' = [pc EXCEPT !["main"] = "close_join"]
            /\ UNCHANGED lastError
    /\ UNCHANGED <<session, mcp_tools, task, ready, taskPc, bgPc, loopClosed,
                   sessionOpen, procAlive, serverTools, listed, fault,
                   elapsed, calls, toolLists, closeCount>>
    /\ UNCHANGED scopeVars

    /\ UNCHANGED adaptVars
\* mutant: close() goes on without joining the thread
CloseJoinNoWait ==
    /\ pc["main"] = "close_join"
    /\ pc' = [pc EXCEPT !["main"] = "close_stop"]
    /\ UNCHANGED <<session, mcp_tools, task, ready, taskPc, bgPc, loopQueue,
                   loopClosed, sessionOpen, procAlive, serverTools, listed,
                   fault, elapsed, calls, toolLists, closeCount, lastError,
                   loopAccess>>
    /\ UNCHANGED scopeVars

    /\ UNCHANGED adaptVars
\* line 188: self.thread.join(), with no timeout
CloseJoin ==
    /\ pc["main"] = "close_join"
    /\ bgPc = "dead"
    /\ pc' = [pc EXCEPT !["main"] = "close_stop"]
    /\ UNCHANGED <<session, mcp_tools, task, ready, taskPc, bgPc, loopQueue,
                   loopClosed, sessionOpen, procAlive, serverTools, listed,
                   fault, elapsed, calls, toolLists, closeCount, lastError,
                   loopAccess>>
    /\ UNCHANGED scopeVars

    /\ UNCHANGED adaptVars
\* lines 194-195: __exit__ returns what close() returns, None, so the
\* exception of the caller's block goes on to the caller once close() is
\* back. What the unwinding of setup() raised stays in the background
\* thread (line 155) and never reaches close().
ExitRaises == IF bodyRaised /\ closeCount = 0 THEN "BodyError" ELSE exitError

\* mutant: close() also closes the loop it has stopped
CloseStopClosesLoop ==
    /\ pc["main"] = "close_stop"
    /\ IF loopClosed
       THEN /\ lastError' = [lastError EXCEPT !["main"] = "EventLoopClosed"]
            /\ UNCHANGED <<loopQueue, loopAccess, closeCount, exitError>>
       ELSE /\ loopQueue' = Append(loopQueue, [kind |-> "stop", id |-> 0])
            /\ loopAccess' = loopAccess \cup {<<"main", "threadsafe">>}
            /\ closeCount' = closeCount + 1
            /\ exitError' = ExitRaises
            /\ UNCHANGED lastError
    /\ loopClosed' = TRUE
    /\ pc' = [pc EXCEPT !["main"] = "idle"]
    /\ UNCHANGED <<session, mcp_tools, task, ready, taskPc, bgPc,
                   sessionOpen, procAlive, serverTools, listed, fault,
                   elapsed, calls, toolLists>>
    /\ UNCHANGED <<mode, serverparams, ctxmanager, bodyRaised, listCount>>

    /\ UNCHANGED adaptVars
\* line 189: self.loop.call_soon_threadsafe(self.loop.stop); close returns
CloseStop ==
    /\ pc["main"] = "close_stop"
    /\ IF loopClosed
       THEN /\ lastError' = [lastError EXCEPT !["main"] = "EventLoopClosed"]
            /\ UNCHANGED <<loopQueue, loopAccess, closeCount, exitError>>
       ELSE /\ loopQueue' = Append(loopQueue, [kind |-> "stop", id |-> 0])
            /\ loopAccess' = loopAccess \cup {<<"main", "threadsafe">>}
            /\ closeCount' = closeCount + 1
            /\ exitError' = ExitRaises
            /\ UNCHANGED lastError
    /\ pc' = [pc EXCEPT !["main"] = "idle"]
    /\ UNCHANGED <<session, mcp_tools, task, ready, taskPc, bgPc, loopClosed,
                   sessionOpen, procAlive, serverTools, listed, fault,
                   elapsed, calls, toolLists>>
    /\ UNCHANGED <<mode, serverparams, ctxmanager, bodyRaised, listCount>>

    /\ UNCHANGED adaptVars
\* ------------------------------------- MCPAdapt.__aenter__ / __aexit__
\* lines 213-214, up to the await: a second mcptools(self.serverparams) is
\* entered on the caller's own loop; it spawns its own server process and
\* opens its own ClientSession.
AEnterStart ==
    /\ mode = "async"
    /\ pc["main"] = "idle"
    /\ ctxmanager.state = "none"
    /\ ctxmanager' = [state |-> "entering", open |-> TRUE, proc |-> TRUE,
                      tools |-> serverparams.tools, listed |-> NoneTools]
    /\ pc' = [pc EXCEPT !["main"] = "aenter"]
    /\ UNCHANGED <<session, mcp_tools, task, ready, taskPc, bgPc, loopQueue,
                   loopClosed, sessionOpen, procAlive, serverTools, listed,
                   fault, elapsed, calls, toolLists, closeCount, lastError,
                   loopAccess, mode, serverparams, bodyRaised, listCount,
                   exitError>>

    /\ UNCHANGED adaptVars
\* lines 207-210, atools(): one async_adapt per entry of self.mcp_tools,
\* each bound to the call_tool of what self.session is now
AToolsList ==
    [names |-> mcp_tools, session |-> "aenter", open |-> ctxmanager.open,
     closed |-> ctxmanager.state = "exited", via |-> "atools",
     gen |-> listCount + 1, server |-> ctxmanager.tools, listedBy |-> "bg"]

\* lines 214-215: self.session, self.tools = session, listing of the second
\* session; return self.atools()
AEnterDone ==
    /\ pc["main"] = "aenter"
    /\ session' = "aenter"
    /\ ctxmanager' = [ctxmanager EXCEPT !.state = "entered",
                                        !.listed = ctxmanager.tools]
    /\ toolLists' = toolLists \cup
            {[AToolsList EXCEPT !.open = TRUE, !.closed = FALSE]}
    /\ listCount' = listCount + 1
    /\ pc' = [pc EXCEPT !["main"] = "idle"]
    /\ UNCHANGED <<mcp_tools, task, ready, taskPc, bgPc, loopQueue,
                   loopClosed, sessionOpen, procAlive, serverTools, listed,
                   fault, elapsed, calls, closeCount, lastError, loopAccess,
                   mode, serverparams, bodyRaised, exitError>>

    /\ UNCHANGED adaptVars
\* lines 198-210: atools() called again by the caller
ATools ==
    /\ mode = "async"
    /\ pc["main"] = "idle"
    /\ ~Unwinding("main")
    /\ ctxmanager.state \in {"entered", "exited"}
    /\ listCount < MaxLists
    /\ toolLists' = toolLists \cup {AToolsList}
    /\ listCount' = listCount + 1
    /\ UNCHANGED <<pc, session, mcp_tools, task, ready, taskPc, bgPc,
                   loopQueue, loopClosed, sessionOpen, procAlive, serverTools,
                   listed, fault, elapsed, calls, closeCount, lastError,
                   loopAccess, mode, serverparams, ctxmanager, bodyRaised,
                   exitError>>

    /\ UNCHANGED adaptVars
\* line 208: an asynchronous tool is partial(self.session.call_tool, name),
\* bound when atools() ran; awaiting it runs call_tool on the caller's loop.
\* On an exited session the call raises.
ACallTool ==
    /\ mode = "async"
    /\ pc["main"] = "idle"
    /\ ~Unwinding("main")
    /\ FreeCalls # {}
    /\ \E l \in {x \in toolLists : x.via = "atools"} :
       \E i \in 1..Len(l.names) :
       \E outcome \in IF ctxmanager.open THEN {"ok", "isError", "raised"}
                                         ELSE {"raised"} :
        /\ calls' = [calls EXCEPT ![NextCall] =
                        [state |-> outcome, caller |-> "main",
                         runner |-> "main", tool |-> l.names[i],
                         afterClose |-> ctxmanager.state = "exited",
                         mode |-> "async", session |-> l.session,
                         listedBy |-> l.listedBy, gen |-> l.gen]]
        /\ lastError' = [lastError EXCEPT !["main"] =
                            IF outcome = "raised" THEN "McpError" ELSE @]
    /\ UNCHANGED <<pc, session, mcp_tools, task, ready, taskPc, bgPc,
                   loopQueue, loopClosed, sessionOpen, procAlive, serverTools,
                   listed, fault, elapsed, toolLists, closeCount, loopAccess,
                   mode, serverparams, ctxmanager, bodyRaised, listCount,
                   exitError>>

    /\ UNCHANGED adaptVars
\* line 218: await self._ctxmanager.__aexit__(...), whose value is dropped:
\* the second session and its transport exit on the caller's loop; what the
\* exit raises is raised to the caller, else the exception of the block
\* goes on. The session of the background thread is not touched.
AExit ==
    /\ mode = "async"
    /\ pc["main"] = "idle"
    /\ ctxmanager.state = "entered"
    /\ \E teardownFails \in BOOLEAN :
       \E alive \in IF teardownFails THEN BOOLEAN ELSE {FALSE} :
        /\ ctxmanager' = [ctxmanager EXCEPT !.state = "exited",
                                            !.open = FALSE, !.proc = alive]
        /\ exitError' = IF teardownFails THEN "TeardownError"
                        ELSE IF bodyRaised THEN "BodyError" ELSE None
    /\ UNCHANGED <<pc, session, mcp_tools, task, ready, taskPc, bgPc,
                   loopQueue, loopClosed, sessionOpen, procAlive, serverTools,
                   listed, fault, elapsed, calls, toolLists, closeCount,
                   lastError, loopAccess, mode, serverparams, bodyRaised,
                   listCount>>

    /\ UNCHANGED adaptVars
\* ------------------------------------------------------- environment
\* The server registers one more tool (FastMCP.add_tool in the update
\* server of tests/test_core.py, on a tool call): either the process of
\* the background session or the one __aenter__ spawned, while it serves
\* its session after the first listing.
ServerAddTool ==
    /\ \/ /\ procAlive
          /\ sessionOpen
          /\ taskPc = "parked"
          /\ Len(serverTools) < MaxTools
          /\ serverTools' = Listing(Len(serverTools) + 1)
          /\ UNCHANGED ctxmanager
       \/ /\ ctxmanager.proc
          /\ ctxmanager.open
          /\ ctxmanager.state = "entered"
          /\ Len(ctxmanager.tools) < MaxTools
          /\ ctxmanager' = [ctxmanager EXCEPT
                                !.tools = Listing(Len(ctxmanager.tools) + 1)]
          /\ UNCHANGED serverTools
    /\ UNCHANGED <<pc, session, mcp_tools, task, ready, taskPc, bgPc,
                   loopQueue, loopClosed, sessionOpen, procAlive, listed,
                   fault, elapsed, calls, toolLists, closeCount, lastError,
                   loopAccess, mode, serverparams, bodyRaised, listCount,
                   exitError>>

    /\ UNCHANGED adaptVars
\* the caller's block (the body of `with` / `async with`) raises
BodyRaises ==
    /\ InScope
    /\ ~bodyRaised
    /\ bodyRaised' = TRUE
    /\ UNCHANGED <<pc, session, mcp_tools, task, ready, taskPc, bgPc,
                   loopQueue, loopClosed, sessionOpen, procAlive, serverTools,
                   listed, fault, elapsed, calls, toolLists, closeCount,
                   lastError, loopAccess, mode, serverparams, ctxmanager,
                   listCount, exitError>>

    /\ UNCHANGED adaptVars
\* ---------------------------------------------------------------- Next
Next ==
    \/ CtorStart
    \/ CtorWait
    \/ Tick
    \/ RunLoopStart
    \/ SetupConnect
    \/ SetupInitialize
    \/ SetupListTools
    \/ SetupStore
    \/ SetupSignal
    \/ SetupFail
    \/ LoopRunCallback
    \/ TaskTeardown
    \/ RunLoopExit
    \/ \E t \in Threads : Tools(t)
    \/ \E t \in Threads : SyncCallTool(t)
    \/ \E c \in 1..MaxCalls : CallComplete(c)
    \/ CloseCancel
    \/ CloseJoin
    \/ CloseStop
    \/ AEnterStart
    \/ AEnterDone
    \/ ATools
    \/ ACallTool
    \/ AExit
    \/ ServerAddTool
    \/ BodyRaises

Spec == Init /\ [][Next]_vars

\* Scheduling: the operating system runs every started thread, the loop runs
\* every callback handed to it while it is running, a server that answers
\* does answer, and a thread inside __init__ or close() goes on when it can.
\* Nothing obliges the user to call tools(), a tool or close(), and a hanging
\* server (fault.kind = "hang") never answers.
Fairness ==
    /\ WF_vars(CtorStart)
    /\ WF_vars(CtorWait)
    /\ WF_vars(RunLoopStart)
    /\ WF_vars(SetupConnect)
    /\ WF_vars(SetupInitialize)
    /\ WF_vars(SetupListTools)
    /\ WF_vars(SetupStore)
    /\ WF_vars(SetupSignal)
    /\ WF_vars(SetupFail)
    /\ WF_vars(LoopRunCallback)
    /\ WF_vars(TaskTeardown)
    /\ WF_vars(RunLoopExit)
    /\ WF_vars(\E c \in 1..MaxCalls : CallComplete(c))
    /\ WF_vars(CloseJoin)
    /\ WF_vars(CloseStop)
    /\ WF_vars(AEnterDone)

FairSpec == Spec /\ Fairness

\* ==================================================== adapter strategies
\* The adapters are functions of their arguments: each behaviour of
\* AdaptSpec draws one input and applies one operation to it.

\* characters of a tool name: letters, a digit, underscore, dash, and one
\* character that is neither a word character nor a dash
Letters == {"d", "e", "f"}
Digits == {"1"}
Chars == Letters \cup Digits \cup {"_", "-", "$"}

\* keyword.iskeyword over names written with Chars
Keywords == {<<"d", "e", "f">>}

Names == UNION {[1..n -> Chars] : n \in 1..MaxNameLen}

\* str.isidentifier() and not a keyword
IsIdentifier(name) ==
    /\ Len(name) >= 1
    /\ name[1] \in Letters \cup {"_"}
    /\ \A i \in 1..Len(name) : name[i] \in Letters \cup Digits \cup {"_"}

\* ---------------------------- smolagents_adapter._sanitize_function_name
\* line 42: name.replace("-", "_")
ReplaceDashes(name) ==
    [i \in 1..Len(name) |-> IF name[i] = "-" THEN "_" ELSE name[i]]

\* line 45: re.sub(r"[^\w_]", "", name)
RECURSIVE RemoveNonWord(_)
RemoveNonWord(name) ==
    IF name = <<>> THEN <<>>
    ELSE IF Head(name) \in Letters \cup Digits \cup {"_"}
         THEN <<Head(name)>> \o RemoveNonWord(Tail(name))
         ELSE RemoveNonWord(Tail(name))

\* the exception of name[0] on an empty string; no name is this sequence
IndexError == <<"IndexError">>

\* lines 48-55: name[0] raises IndexError on an empty string
SanitizeTail(name) ==
    IF name = <<>> THEN IndexError
    ELSE LET unnumbered == IF name[1] \in Digits THEN <<"_">> \o name
                                               ELSE name
         IN IF unnumbered \in Keywords THEN unnumbered \o <<"_">>
                                        ELSE unnumbered

SanitizeFunctionName(name) == SanitizeTail(RemoveNonWord(ReplaceDashes(name)))

SanitizeInputs == [op : {"sanitize"}, name : Names]

Sanitize ==
    /\ adaptPc = "input"
    /\ adaptIn.op = "sanitize"
    /\ adaptOut' = SanitizeFunctionName(adaptIn.name)
    /\ adaptPc' = "done"
    /\ UNCHANGED <<adaptIn, helper, joinClock>>
    /\ UNCHANGED coreVars

\* ------------------------------------------------------ langchain_adapter
\* _generate_tool_class lines 75-80 writes `def {name}(...)` with the MCP
\* name as it is; _instanciate_tool line 105 exec()s it, which raises
\* SyntaxError unless the name is an identifier and no keyword (only
\* ValueError is caught, line 106); line 111 fetches the tool by the MCP
\* name. The function the tool calls is bound to the MCP name (core.py 180).
LangChainInstanciate(name) ==
    IF IsIdentifier(name) /\ name \notin Keywords
    THEN [kind |-> "tool", name |-> name, calls |-> name]
    ELSE [kind |-> "error", name |-> "SyntaxError", calls |-> None]

LangChainInputs == [op : {"langchain"}, name : Names]

\* LangChainAdapter.adapt / async_adapt
LangChainAdapt ==
    /\ adaptPc = "input"
    /\ adaptIn.op = "langchain"
    /\ adaptOut' = LangChainInstanciate(adaptIn.name)
    /\ adaptPc' = "done"
    /\ UNCHANGED <<adaptIn, helper, joinClock>>
    /\ UNCHANGED coreVars

\* ------------------------------------------- crewai_adapter, _run
\* keyword arguments of a tool
Keys == {"a", "b"}

\* the value of "type" in a property schema: missing, one type name, or a
\* list of type names
NoType == [list |-> FALSE, of |-> {}]
TypeValues ==
    {NoType,
     [list |-> FALSE, of |-> {"string"}],
     [list |-> FALSE, of |-> {"null"}],
     [list |-> TRUE, of |-> {"string", "null"}],
     [list |-> TRUE, of |-> {"string", "integer"}]}

\* the value of "anyOf": missing, or the "type" of each option
AnyOfValues ==
    {[present |-> FALSE, types |-> {}],
     [present |-> TRUE, types |-> {"string", "null"}],
     [present |-> TRUE, types |-> {"string", "integer"}]}

\* a key of the tool's inputSchema["properties"], or a key it does not have
NoProperty == [inSchema |-> FALSE, type |-> NoType,
               anyOf |-> [present |-> FALSE, types |-> {}]]
PropSchemas ==
    {NoProperty} \cup [inSchema : {TRUE}, type : TypeValues, anyOf : AnyOfValues]

\* a keyword argument: not passed, passed as None, passed with a value
ArgValues == {"absent", "null", "value"}

\* lines 71-87: what _run does with one keyword argument
FilterKwarg(prop, value) ==
    IF value = "null" /\ prop.inSchema
    THEN IF prop.type.list
         THEN IF "null" \in prop.type.of THEN value ELSE "absent"
         ELSE IF prop.anyOf.present
              THEN IF "null" \in prop.anyOf.types THEN value ELSE "absent"
              ELSE "absent"
    ELSE value

\* line 89: func(filtered_kwargs).content[0].text
CrewAIResult(content) ==
    CASE content = "text" -> "text"
      [] content = "empty" -> "IndexError"
      [] OTHER -> "AttributeError"

CrewAIInputs ==
    [op : {"crewai_run"}, properties : [Keys -> PropSchemas],
     kwargs : [Keys -> ArgValues], content : {"text", "empty", "image"}]

\* CrewAIMCPTool._run, lines 65-89
CrewAIRun ==
    /\ adaptPc = "input"
    /\ adaptIn.op = "crewai_run"
    /\ adaptOut' =
        [forwarded |-> [k \in Keys |->
                            FilterKwarg(adaptIn.properties[k], adaptIn.kwargs[k])],
         result |-> CrewAIResult(adaptIn.content)]
    /\ adaptPc' = "done"
    /\ UNCHANGED <<adaptIn, helper, joinClock>>
    /\ UNCHANGED coreVars

\* ------------------------------- smolagents_adapter, MCPAdaptTool.forward
\* content items: TextContent whose text is no JSON, is JSON, is empty;
\* ImageContent; AudioContent; any other item (an embedded resource)
TextKinds == {"text", "json", "empty_text"}
ContentKinds == TextKinds \cup {"image", "audio", "resource"}

Contents == UNION {[1..n -> ContentKinds] : n \in 0..MaxContent}

ForwardInputs ==
    [op : {"forward"}, structured_output : BOOLEAN,
     args : {"kwargs", "dict", "bad"}, content : Contents,
     structuredContent : {"none", "object"}, torchaudio : BOOLEAN]

\* mutant: the result is unwrapped by its last content item
UnwrapLast(in) ==
    LET content_item == in.content[Len(in.content)] IN
    IF content_item \in TextKinds
    THEN IF in.structured_output /\ content_item = "json"
         THEN "parsed"
         ELSE "text"
    ELSE IF content_item = "image" THEN "image"
    ELSE IF content_item = "audio"
         THEN IF in.torchaudio THEN "audio" ELSE "ValueError"
    ELSE "ValueError"

\* lines 188-229: the first content item by its type
UnwrapFirst(in) ==
    LET content_item == in.content[1] IN
    IF content_item \in TextKinds
    THEN IF in.structured_output /\ content_item = "json"
         THEN "parsed"   \* json.loads(text_content), lines 192-195
         ELSE "text"     \* lines 196-203
    ELSE IF content_item = "image" THEN "image"
    ELSE IF content_item = "audio"
         THEN IF in.torchaudio THEN "audio" ELSE "ValueError"
    ELSE "ValueError"

\* lines 152-229
ForwardResult(in) ==
    IF in.args = "bad" THEN "ValueError"                 \* lines 152-158
    ELSE IF in.content = <<>> THEN "ValueError"           \* lines 163-164
    ELSE IF in.structured_output /\ in.structuredContent # "none"
         THEN "structuredContent"                         \* lines 167-173
    ELSE UnwrapFirst(in)

Forward ==
    /\ adaptPc = "input"
    /\ adaptIn.op = "forward"
    /\ adaptOut' = ForwardResult(adaptIn)
    /\ adaptPc' = "done"
    /\ UNCHANGED <<adaptIn, helper, joinClock>>
    /\ UNCHANGED coreVars

\* ------------------------- the list comprehensions of tools() / atools()
\* the inputSchema of a listed tool: well-formed, without "properties", or
\* with a property that has no "type"
ToolShapes == {"ok", "no_properties", "no_type"}

SyncAdapters == {"smolagents", "langchain"}
AsyncAdapters == {"base", "crewai", "smolagents", "langchain"}

\* adapter.adapt(func, tool). smolagents_adapter.py 103-107:
\* input_schema["properties"] raises KeyError without the key, a missing
\* "type" becomes "string". langchain_adapter.py 54-60: a missing
\* "properties" is {}, v['type'] raises KeyError without the key.
Adapt(adapter, shape) ==
    IF adapter = "smolagents"
    THEN IF shape = "no_properties" THEN "KeyError" ELSE "tool"
    ELSE IF shape = "no_type" THEN "KeyError" ELSE "tool"

\* adapter.async_adapt(afunc, tool). ToolAdapter.async_adapt (core.py 45-67)
\* is a plain function that raises; CrewAIAdapter.async_adapt and
\* SmolAgentsAdapter.async_adapt are `async def`: calling them runs nothing
\* and returns a coroutine object; LangChainAdapter.async_adapt builds the
\* tool as adapt does.
AsyncAdapt(adapter, shape) ==
    CASE adapter = "base" -> "NotImplementedError"
      [] adapter \in {"crewai", "smolagents"} -> "coroutine"
      [] OTHER -> Adapt("langchain", shape)

Exceptions == {"KeyError", "NotImplementedError"}

\* core.py 179-182 and 207-210: [adapt(...) for tool in self.mcp_tools];
\* the first call that raises ends the comprehension with its exception
Comprehension(items) ==
    LET raising == {i \in 1..Len(items) : items[i] \in Exceptions} IN
    IF raising = {}
    THEN [kind |-> "list", error |-> None, items |-> items]
    ELSE [kind |-> "error",
          error |-> items[CHOOSE i \in raising : \A j \in raising : i <= j],
          items |-> <<>>]

Listings == UNION {[1..n -> ToolShapes] : n \in 0..MaxTools}

ToolsInputs == [op : {"tools"}, adapter : SyncAdapters, listing : Listings]
AToolsInputs == [op : {"atools"}, adapter : AsyncAdapters, listing : Listings]

\* MCPAdapt.tools, lines 179-182, with a real adapter
ToolsAdapted ==
    /\ adaptPc = "input"
    /\ adaptIn.op = "tools"
    /\ adaptOut' = Comprehension(
            [i \in 1..Len(adaptIn.listing) |->
                Adapt(adaptIn.adapter, adaptIn.listing[i])])
    /\ adaptPc' = "done"
    /\ UNCHANGED <<adaptIn, helper, joinClock>>
    /\ UNCHANGED coreVars

\* MCPAdapt.atools, lines 207-210, as __aenter__ (line 215) calls it
AToolsAdapted ==
    /\ adaptPc = "input"
    /\ adaptIn.op = "atools"
    /\ adaptOut' = Comprehension(
            [i \in 1..Len(adaptIn.listing) |->
                AsyncAdapt(adaptIn.adapter, adaptIn.listing[i])])
    /\ adaptPc' = "done"
    /\ UNCHANGED <<adaptIn, helper, joinClock>>
    /\ UNCHANGED coreVars

\* ------------------------------------------------- utils.async_to_sync
\* the wrapped coroutine: how long it runs and how it ends
A2SInputs ==
    [op : {"async_to_sync"}, duration : 0..MaxDuration,
     outcome : {"value", "none", "raises"}]

\* lines 21-35: result = None; error = None; thread.start()
A2SStart ==
    /\ adaptPc = "input"
    /\ adaptIn.op = "async_to_sync"
    /\ helper' = [NoHelper EXCEPT !.state = "running"]
    /\ adaptPc' = "join"
    /\ UNCHANGED <<adaptIn, adaptOut, joinClock>>
    /\ UNCHANGED coreVars

\* a second passes while the caller is in thread.join and the coroutine
\* still has to run
A2STick ==
    /\ adaptPc = "join"
    /\ helper.state = "running"
    /\ joinClock < JoinTimeout
    /\ joinClock < adaptIn.duration
    /\ joinClock' = joinClock + 1
    /\ UNCHANGED <<adaptPc, adaptIn, adaptOut, helper>>
    /\ UNCHANGED coreVars

\* lines 24-30, run_async on the helper thread: asyncio.run returns or
\* raises once the coroutine has run for its duration (after join has given
\* up, at any later time); the outcome is stored in `result` / `error`
A2SHelperFinish ==
    /\ helper.state = "running"
    /\ joinClock >= adaptIn.duration \/ adaptPc \in {"joined", "done"}
    /\ helper' = [state |-> "done",
                  result |-> IF adaptIn.outcome = "value" THEN "value" ELSE None,
                  error |-> IF adaptIn.outcome = "raises" THEN "Exception"
                                                          ELSE None]
    /\ UNCHANGED <<adaptPc, adaptIn, adaptOut, joinClock>>
    /\ UNCHANGED coreVars

\* line 37: thread.join(timeout=10) returns when the thread has ended or
\* when 10 seconds have passed
A2SJoin ==
    /\ adaptPc = "join"
    /\ helper.state = "done" \/ joinClock >= JoinTimeout
    /\ adaptPc' = "joined"
    /\ UNCHANGED <<adaptIn, adaptOut, helper, joinClock>>
    /\ UNCHANGED coreVars

\* lines 39-41: if error: raise error; return result
A2SReturn ==
    /\ adaptPc = "joined"
    /\ adaptOut' = IF helper.error # None
                   THEN [kind |-> "raise", value |-> helper.error]
                   ELSE [kind |-> "return", value |-> helper.result]
    /\ adaptPc' = "done"
    /\ UNCHANGED <<adaptIn, helper, joinClock>>
    /\ UNCHANGED coreVars

\* ------------------------------------------------------------- AdaptSpec
AdaptInputs == SanitizeInputs \cup LangChainInputs \cup CrewAIInputs
    \cup ForwardInputs \cup ToolsInputs \cup AToolsInputs
    \cup A2SInputs

\* the bridge is not constructed in these behaviours
AdaptInit ==
    /\ pc = [t \in Threads |-> IF t = "main" THEN "ctor" ELSE "idle"]
    /\ session = None
    /\ mcp_tools = NoneTools
    /\ task = None
    /\ ready = FALSE
    /\ taskPc = "none"
    /\ bgPc = "unstarted"
    /\ loopQueue = <<>>
    /\ loopClosed = FALSE
    /\ sessionOpen = FALSE
    /\ procAlive = FALSE
    /\ mode = "sync"
    /\ serverparams = [isList |-> FALSE, n |-> 1, tools |-> Listing(1)]
    /\ serverTools = Listing(1)
    /\ listed = NoneTools
    /\ fault = [kind |-> "none", phase |-> "connect"]
    /\ elapsed = 0
    /\ calls = [c \in 1..MaxCalls |-> NoCall]
    /\ toolLists = {}
    /\ closeCount = 0
    /\ lastError = [t \in Threads |-> None]
    /\ loopAccess = {}
    /\ ctxmanager = NoCtx
    /\ bodyRaised = FALSE
    /\ listCount = 0
    /\ exitError = None
    /\ adaptPc = "input"
    /\ adaptIn \in AdaptInputs
    /\ adaptOut = None
    /\ helper = NoHelper
    /\ joinClock = 0

AdaptNext ==
    \/ Sanitize
    \/ LangChainAdapt
    \/ CrewAIRun
    \/ Forward
    \/ ToolsAdapted
    \/ AToolsAdapted
    \/ A2SStart
    \/ A2STick
    \/ A2SHelperFinish
    \/ A2SJoin
    \/ A2SReturn

AdaptSpec == AdaptInit /\ [][AdaptNext]_vars

\* =============================================================== claims

Finished == {"ok", "isError", "raised"}
QueuedKinds == {loopQueue[i].kind : i \in 1..Len(loopQueue)}

\* C1: in synchronous mode the constructor returns, and tools() returns a
\* list, only after setup() has gone through initialize() and the first
\* list_tools() and has stored the session and the listing: every returned
\* list is the complete first listing, bound to the stored session.
C1_ReadyBeforeTools ==
    mode = "sync" =>
        /\ Constructed =>
            /\ ready
            /\ taskPc \in {"parked", "teardown"} \cup TaskDone
            /\ listed # NoneTools
            /\ session = "bg"
            /\ mcp_tools = listed
        /\ \A l \in toolLists :
            l.session = "bg" /\ l.names # NoneTools /\ l.names = listed

C1_Witness ==
    /\ mode = "sync"
    /\ closeCount = 0
    /\ \E l \in toolLists : l.open /\ Len(l.names) = MaxTools

\* C2: a setup that takes longer than connect_timeout makes the constructor
\* fail with TimeoutError, leaves the bridge closed, and no tool list is
\* ever handed to the caller's block.
C2_ConnectTimeoutRaises ==
    (elapsed > ConnectTimeout /\ pc["main"] # "wait") =>
        /\ lastError["main"] = "TimeoutError"
        /\ bgPc = "dead"
        /\ toolLists = {}

\* C3: once the connect timeout has been exceeded, the setup is cancelled
\* and eventually neither the background thread nor the server subprocess
\* is alive.
C3_NoThreadAfterTimeout ==
    (elapsed > ConnectTimeout) ~> (bgPc = "dead" /\ ~procAlive)

\* C4: when the transport, initialize() or the first list_tools() fails,
\* the constructor eventually stops waiting and raises an error to the
\* starter.
C4_SetupFailureSurfaces ==
    (taskPc = "failed" /\ pc["main"] = "wait")
        ~> (pc["main"] # "wait" /\ lastError["main"] # None)

\* C5: close() on a READY bridge hands the cancellation to the loop before
\* it joins, hands loop.stop only after the thread has ended, always
\* returns, and has then exited the session and ended the background
\* thread; the subprocess is gone too unless the unwinding itself failed.
C5_CloseCancelsJoinsStops ==
    /\ [](closeCount >= 1 =>
            /\ taskPc \in TaskDone
            /\ ~sessionOpen
            /\ (taskPc = "cancelled" => ~procAlive)
            /\ bgPc = "dead")
    /\ []((pc["main"] = "close_join" /\ closeCount = 0) =>
            ("cancel" \in QueuedKinds \/ taskPc \in {"teardown"} \cup TaskDone))
    /\ []("stop" \in QueuedKinds => bgPc = "dead")
    /\ ((pc["main"] = "close_join") ~> (pc["main"] = "idle" /\ closeCount >= 1))

C5_Witness ==
    /\ closeCount = 1
    /\ pc["main"] = "idle"
    /\ taskPc = "cancelled"
    /\ bgPc = "dead"

\* C6: a forwarding callable invoked after close() has returned gives its
\* caller an error: the call does not stay blocked and returns no result.
C6_ClosedErrorAfterClose ==
    \A c \in 1..MaxCalls :
        (calls[c].afterClose) ~> (calls[c].state = "raised")

\* C7: after close() has returned, tools() returns no tool bound to the
\* closed session.
C7_NoToolsOfClosedSession ==
    \A l \in toolLists : l.closed => l.open

\* C8: a second close() raises nothing, does not block in join (the thread
\* it joins has already ended) and changes nothing of the bridge.
C8_DoubleCloseNoOp ==
    /\ [](closeCount >= 1 => lastError["main"] # "EventLoopClosed")
    /\ []((closeCount >= 1 /\ pc["main"] = "close_join") => bgPc = "dead")
    /\ [][closeCount >= 1 => bridgeVars' = bridgeVars]_vars

C8_Witness ==
    /\ closeCount = 2
    /\ pc["main"] = "idle"
    /\ lastError["main"] = None

\* close() starts only on a bridge whose setup has completed: the bridge is
\* handed to its user by __init__, which returns after `ready` only, so
\* close() never meets a missing task or a setup still under way.
CloseOnlyAfterReady ==
    pc["main"] \in {"close_join", "close_stop"} =>
        /\ ready
        /\ task = "setup"
        /\ taskPc \in {"parked", "teardown"} \cup TaskDone

\* C10: every session.call_tool coroutine is run by the background loop
\* thread, and a calling thread reaches the loop only through the
\* thread-safe handoff.
C10_CallsRunOnLoopThread ==
    /\ \A c \in 1..MaxCalls :
        (calls[c].mode = "sync" /\ calls[c].state \in {"running"} \cup Finished)
            => calls[c].runner = "bg"
    /\ \A a \in loopAccess : a[1] # "bg" => a[2] = "threadsafe"

C10_Witness ==
    \E c \in 1..MaxCalls :
        /\ calls[c].state = "ok"
        /\ calls[c].caller = "worker"
        /\ calls[c].runner = "bg"

\* C11: a bridge acquired with `async with` never starts the background
\* thread, and every call of an asynchronous tool runs on the caller's loop.
C11_AsyncStartsNoThread ==
    mode = "async" =>
        /\ bgPc = "unstarted"
        /\ \A c \in 1..MaxCalls :
            calls[c].state # "none" => calls[c].runner = "main"

\* C12: once the asynchronous scope has been left, no session and no
\* transport the bridge opened since its construction is still live.
C12_AsyncExitTearsAllDown ==
    ctxmanager.state = "exited" =>
        /\ ~ctxmanager.open
        /\ ~sessionOpen
        /\ ~procAlive

\* C13: the bridge never holds two live sessions to its ServerSpec: the
\* session of setup() and the one of __aenter__ are never open together.
C13_OneSessionPerSpec ==
    ~(sessionOpen /\ ctxmanager.open)

\* the listings of n servers one after the other, in the order of the specs
RECURSIVE Repeat(_, _)
Repeat(listing, n) == IF n = 0 THEN <<>> ELSE listing \o Repeat(listing, n - 1)

\* C14: for a collection of N specs whose servers all answer, the bridge
\* comes up and the list it returns holds the tools of all N servers, those
\* of spec i before those of spec i+1.
C14_ListIsSumOverSpecs ==
    (fault.kind = "none")
        ~> (/\ Constructed
            /\ mcp_tools = Repeat(serverparams.tools, serverparams.n))

\* C15: every forwarded call goes to the session that listed the tool it
\* was made through.
C15_ForwardsToListingSession ==
    \A c \in 1..MaxCalls :
        calls[c].state # "none" => calls[c].session = calls[c].listedBy

\* C16: every list handed out by tools() / atools() is what the server of
\* its session advertises at that moment, a tool added since the first
\* listing included.
C16_RelistQueriesServer ==
    \A l \in toolLists : l.names = l.server

\* C17: a refresh (a tools() / atools() after the first list) leaves every
\* list returned before it in place and changes neither the sessions, the
\* loop nor any call; every call made through a list, old or new, is bound
\* to that list's session and sends one of that list's names.
C17_RefreshKeepsOldTools ==
    /\ [][/\ toolLists \subseteq toolLists'
          /\ (toolLists # {} /\ listCount' # listCount) =>
                UNCHANGED <<bridgeVars, ctxmanager, calls, loopQueue>>]_vars
    /\ [](\A c \in 1..MaxCalls :
            calls[c].state # "none" =>
                \E l \in toolLists :
                    /\ l.gen = calls[c].gen
                    /\ l.session = calls[c].session
                    /\ \E i \in 1..Len(l.names) : l.names[i] = calls[c].tool)

\* the first call went through the refreshed list, and the call after it,
\* through the list returned before the refresh, has returned its result
C17_Witness ==
    /\ listCount = 2
    /\ calls[1].gen = 2
    /\ calls[2].gen = 1
    /\ calls[2].state = "ok"

\* C18: two lists returned by the same operation while the server
\* advertises the same tools have equal size and equal names in the same
\* order.
C18_RefreshIdempotent ==
    \A l1, l2 \in toolLists :
        (l1.via = l2.via /\ l1.server = l2.server) =>
            /\ Len(l1.names) = Len(l2.names)
            /\ l1.names = l2.names

C18_Witness ==
    \E l1, l2 \in toolLists :
        /\ l1.gen = 1
        /\ l2.gen = 2
        /\ l1.via = l2.via
        /\ l1.server = l2.server
        /\ Len(l1.names) = MaxTools

\* close() has been called, or is under way
CloseStarted == closeCount >= 1 \/ pc["main"] \in {"close_join", "close_stop"}

\* C19: while nobody closes the bridge, a tool call that raised or returned
\* an error-flagged result leaves the setup task parked, the session open
\* and the loop thread running; an exception is seen only by a thread whose
\* own call raised; and every submitted call completes.
C19_FailedCallIsLocal ==
    /\ []((/\ mode = "sync"
           /\ ~CloseStarted
           /\ \E c \in 1..MaxCalls : calls[c].state \in {"raised", "isError"})
            => /\ ready
               /\ taskPc = "parked"
               /\ sessionOpen
               /\ procAlive
               /\ bgPc = "running")
    /\ [](\A t \in Threads :
            lastError[t] = "McpError" =>
                \E c \in 1..MaxCalls :
                    calls[c].caller = t /\ calls[c].state = "raised")
    /\ \A c \in 1..MaxCalls :
        (calls[c].state \in {"queued", "running"})
            ~> (calls[c].state \in Finished \/ CloseStarted)

\* the main thread's first call raised; its next call returned a result
C19_Witness ==
    /\ ~CloseStarted
    /\ calls[1].caller = "main"
    /\ calls[1].state = "raised"
    /\ calls[2].caller = "main"
    /\ calls[2].state = "ok"

\* C20: leaving the scope passes on the exception of the caller's block,
\* and an exception of the teardown itself is raised to the caller.
C20_ScopeExitPropagates ==
    /\ (mode = "sync" /\ closeCount >= 1) =>
        /\ (bodyRaised /\ taskPc = "cancelled") => exitError = "BodyError"
        /\ (~bodyRaised /\ taskPc = "failed") => exitError = "TeardownError"
    /\ (mode = "async" /\ ctxmanager.state = "exited" /\ bodyRaised) =>
        exitError \in {"BodyError", "TeardownError"}

\* a name the claims speak about: it has a dash, or it is a reserved word
NeedsSanitizing(name) ==
    (\E i \in 1..Len(name) : name[i] = "-") \/ name \in Keywords

\* C23: for every tool name the SmolAgents adapter derives a name without
\* failing, and the derived name is a valid identifier and no reserved
\* word; dashes have become underscores ('d-f' gives 'd_f') and a reserved
\* word has got a trailing underscore ('def' gives 'def_').
C23_SanitizeTotalAndValid ==
    (adaptPc = "done" /\ adaptIn.op = "sanitize") =>
        /\ adaptOut # IndexError
        /\ IsIdentifier(adaptOut)
        /\ adaptOut \notin Keywords
        /\ adaptIn.name = <<"d", "-", "f">> => adaptOut = <<"d", "_", "f">>
        /\ adaptIn.name = <<"d", "e", "f">> => adaptOut = <<"d", "e", "f", "_">>

\* C24: for an MCP name with a dash or a reserved word the LangChain
\* adapter yields a tool, named with the sanitized name, that calls the
\* server tool under the original MCP name.
C24_LangChainSanitizesName ==
    (adaptPc = "done" /\ adaptIn.op = "langchain"
        /\ NeedsSanitizing(adaptIn.name)
        /\ SanitizeFunctionName(adaptIn.name) # IndexError) =>
        /\ adaptOut.kind = "tool"
        /\ adaptOut.name = SanitizeFunctionName(adaptIn.name)
        /\ adaptOut.calls = adaptIn.name

\* the schema of a property allows null: its type is null or a list with
\* null, or one option of its anyOf is null
AllowsNull(prop) ==
    \/ "null" \in prop.type.of
    \/ prop.anyOf.present /\ "null" \in prop.anyOf.types

\* C22: of the keys the schema describes, a key passed as null is forwarded
\* if and only if its schema allows null, and a key passed with a value is
\* forwarded with that value.
C22_NullForwardedIffAllowed ==
    (adaptPc = "done" /\ adaptIn.op = "crewai_run") =>
        \A k \in Keys :
            adaptIn.properties[k].inSchema =>
                /\ adaptIn.kwargs[k] = "null" =>
                    (adaptOut.forwarded[k] = "null"
                        <=> AllowsNull(adaptIn.properties[k]))
                /\ adaptIn.kwargs[k] = "value" =>
                    adaptOut.forwarded[k] = "value"

\* forward has called the server and got a call result
ForwardDone ==
    adaptPc = "done" /\ adaptIn.op = "forward" /\ adaptIn.args # "bad"

\* what the type of the first content item stands for
ExpectedByType(item) ==
    IF item \in TextKinds THEN "text"
    ELSE IF item \in {"image", "audio"} THEN item
    ELSE "ValueError"

\* C25 as stated: every adapted SmolAgents tool unwraps by the type of the
\* first content item (text, decoded image, decoded audio), and raises
\* ValueError on an empty content list or another first item.
C25_UnwrapByFirstItem ==
    ForwardDone =>
        IF adaptIn.content = <<>>
        THEN adaptOut = "ValueError"
        ELSE adaptOut = ExpectedByType(adaptIn.content[1])

\* C25 as amended: with structured_output disabled the tool unwraps by the
\* type of the first content item: text gives its text, an image the
\* decoded image, audio the decoded tensor when torchaudio is installed and
\* ValueError when it is not; an empty content list or another first item
\* raises ValueError.
C25_UnwrapByFirstItemUnstructured ==
    (ForwardDone /\ ~adaptIn.structured_output) =>
        IF adaptIn.content = <<>>
        THEN adaptOut = "ValueError"
        ELSE IF adaptIn.content[1] = "audio" /\ ~adaptIn.torchaudio
             THEN adaptOut = "ValueError"
             ELSE adaptOut = ExpectedByType(adaptIn.content[1])

\* two content items of different types: the image in front decides
C25_Witness ==
    /\ ForwardDone
    /\ ~adaptIn.structured_output
    /\ adaptIn.content = <<"image", "text">>
    /\ adaptOut = "image"

\* C27: with structured_output enabled a non-null structuredContent is what
\* forward returns, whatever the content list holds; with structured_output
\* disabled structuredContent is never returned.
C27_StructuredContentFirst ==
    ForwardDone =>
        /\ (adaptIn.structured_output /\ adaptIn.structuredContent # "none")
            => adaptOut = "structuredContent"
        /\ ~adaptIn.structured_output => adaptOut # "structuredContent"

\* C21: with an adapter that has no asynchronous tools (the base
\* ToolAdapter, CrewAIAdapter, SmolAgentsAdapter) the asynchronous
\* acquisition of a server that lists a tool fails with NotImplementedError,
\* and no list with an element that is no tool is ever returned.
C21_AsyncNotSupportedRaises ==
    (adaptPc = "done" /\ adaptIn.op = "atools") =>
        /\ (/\ adaptIn.adapter \in {"base", "crewai", "smolagents"}
            /\ adaptIn.listing # <<>>) =>
            (adaptOut.kind = "error" /\ adaptOut.error = "NotImplementedError")
        /\ adaptOut.kind = "list" =>
            \A i \in 1..Len(adaptOut.items) : adaptOut.items[i] = "tool"

\* C26: a listed tool whose schema is malformed does not abort the
\* construction: tools() returns a list, with an adapted tool for every
\* well-formed tool of the listing.
C26_MalformedToolDoesNotAbort ==
    (adaptPc = "done" /\ adaptIn.op = "tools") =>
        /\ adaptOut.kind = "list"
        /\ \A i \in 1..Len(adaptIn.listing) :
            adaptIn.listing[i] = "ok" =>
                \E j \in 1..Len(adaptOut.items) : adaptOut.items[j] = "tool"

\* C30: when the wrapper of async_to_sync has returned or raised, the
\* wrapped coroutine has finished, and the wrapper has given back the
\* coroutine's result or raised its exception.
C30_WrapperWaitsForCoroutine ==
    (adaptPc = "done" /\ adaptIn.op = "async_to_sync") =>
        /\ helper.state = "done"
        /\ adaptOut =
            CASE adaptIn.outcome = "value" -> [kind |-> "return", value |-> "value"]
              [] adaptIn.outcome = "none" -> [kind |-> "return", value |-> None]
              [] OTHER -> [kind |-> "raise", value |-> "Exception"]

\* C28: a synchronous call submitted before close() and not yet completed
\* when close() is under way eventually completes to its caller, with a
\* result or an error.
C28_InFlightCallCompletes ==
    \A c \in 1..MaxCalls :
        (/\ calls[c].mode = "sync"
         /\ ~calls[c].afterClose
         /\ calls[c].state \in {"queued", "running"}
         /\ CloseStarted)
            ~> (calls[c].state \in Finished)

\* C29: every list handed out by __aenter__ / atools() holds the listing of
\* the session its tools are bound to, the session __aenter__ acquired.
C29_AsyncListFromBoundSession ==
    \A l \in toolLists :
        l.via = "atools" =>
            /\ l.session = "aenter"
            /\ l.listedBy = l.session
            /\ l.names = ctxmanager.listed

====
